---- MODULE Spec2Model ----
(***************************************************************************)
(* Endpoint-chain merging of open paths, as implemented twice in the       *)
(* repository:                                                             *)
(*   - join_path_elements  (src/join_paths.py, inkex paths, mutates the    *)
(*     document nodes in place and returns a stats record);                *)
(*   - join_paths          (src/standalone/svg_utils.py, svgpathtools      *)
(*     paths, returns the merged list and a stats record).                 *)
(* One call of either routine is a run of the state machine: a begin step, *)
(* one step per evaluation of _try_merge in the pair scan, and a final     *)
(* step for the auto-close / statistics loop.                              *)
(*                                                                         *)
(* Geometry is kept on an integer grid; a comparison "distance <= tol" is  *)
(* decided on squared distances, which is exact for the values used.       *)
(* Paths are made of Move / Line / ZoneClose commands (inkex) or of Line   *)
(* segments (svgpathtools).                                                *)
(***************************************************************************)
EXTENDS Integers, Sequences, FiniteSets, TLC

VARIABLES
    impl,          \* "inkex": join_path_elements, "standalone": join_paths
    input,         \* the caller's polylines, as given (never written)
    tolerance,     \* argument tolerance
    auto_close,    \* argument auto_close
    path_nodes,    \* inkex: the node ids passed by the caller, in order
    path_list,     \* standalone: the Path objects passed by the caller
    doc,           \* inkex: node id -> [path, transform, ancestors, attached]
    chains,        \* the working list of the running call
    i, j,          \* cursors of the pair scan
    changed,       \* flag of the outer "while changed" loop
    passes,        \* number of executions of the outer loop body so far
    joins,         \* counter joins
    closed_count,  \* counter closed_count / closed
    nodes_before,  \* inkex: on-curve nodes of the flattened inputs
    nodes_after,   \* inkex: on-curve nodes of the written paths
    stats,         \* the returned stats record (<<>> until the call returns)
    pc,            \* "start" | "scan" | "close" | "done" | "error"
    run,           \* 1: first call, 2: call repeated on the first call's
                   \* output, 3: call repeated on the same paths reordered,
                   \* 4: call of the other routine on the same paths
    first,         \* the chain list returned by the first call (<<>> before)
    members,       \* per working chain: positions of the call's input list
                   \* whose paths it holds (a singleton: still the object
                   \* the caller passed at that position)
    stroke,        \* the running stroke_to_path call ([pc |-> "idle"]: none)
    xform          \* the running apply_transform_to_path call (same)

vars == <<impl, input, tolerance, auto_close, path_nodes, path_list, doc,
          chains, i, j, changed, passes, joins, closed_count, nodes_before,
          nodes_after, stats, pc, run, first, members, stroke, xform>>

-----------------------------------------------------------------------------
(* Bounds of the model and the universe of inputs.                         *)

\* Longest input list.
MaxPaths == 3

\* Largest tolerance tried; the smallest is -1 (an invalid, negative one).
MaxTol == 1

Tolerances == -1 .. MaxTol

Points == {<<0, 0>>, <<1, 0>>, <<1, 1>>}

\* A polyline: its on-curve points in order and whether it ends in Close.
\* The empty path, a path holding only a MoveTo, every open two-point line
\* between distinct points, and one closed triangle.
SamplePolys ==
    {[pts |-> <<>>, z |-> FALSE]}
    \cup {[pts |-> << <<1, 0>> >>, z |-> FALSE]}
    \cup {[pts |-> <<p, q>>, z |-> FALSE] : <<p, q>> \in {pq \in Points \X Points : pq[1] # pq[2]}}
    \cup {[pts |-> << <<0, 0>>, <<1, 0>>, <<1, 1>> >>, z |-> TRUE]}

PolyLists == UNION {[1..n -> SamplePolys] : n \in 0..MaxPaths}

None == <<>>

Min(S) == CHOOSE m \in S : \A n \in S : m <= n

RECURSIVE Sum(_, _)
Sum(f, n) == IF n = 0 THEN 0 ELSE f[n] + Sum(f, n - 1)

-----------------------------------------------------------------------------
(* src/join_paths.py: inkex paths.                                         *)

Move(p) == [k |-> "M", x |-> p[1], y |-> p[2]]
Line(p) == [k |-> "L", x |-> p[1], y |-> p[2]]
ZoneClose == [k |-> "Z"]

\* The path attribute of a node drawn as the polyline poly.
node_path(poly) ==
    IF poly.pts = <<>> THEN <<>>
    ELSE << Move(poly.pts[1]) >>
         \o [n \in 1..(Len(poly.pts) - 1) |-> Line(poly.pts[n + 1])]
         \o (IF poly.z THEN << ZoneClose >> ELSE <<>>)

\* hasattr(cmd, "x") and hasattr(cmd, "y")
has_xy(cmd) == "x" \in DOMAIN cmd /\ "y" \in DOMAIN cmd

\* Mutant of _distance_le: the comparison is strict.
_distance_lt(p1, p2, tol) ==
    /\ tol > 0
    /\ (p1[1] - p2[1]) * (p1[1] - p2[1]) + (p1[2] - p2[2]) * (p1[2] - p2[2])
         < tol * tol

\* _distance(p1, p2) <= tol, with _distance = math.hypot >= 0
_distance_le(p1, p2, tol) ==
    /\ tol >= 0
    /\ (p1[1] - p2[1]) * (p1[1] - p2[1]) + (p1[2] - p2[2]) * (p1[2] - p2[2])
         <= tol * tol

_start(path_cmds) ==
    LET on == {n \in 1..Len(path_cmds) : has_xy(path_cmds[n])}
    IN  IF on = {} THEN None
        ELSE <<path_cmds[Min(on)].x, path_cmds[Min(on)].y>>

\* Mutant of _end: a path that ends in ZoneClose ends where it starts.
_end_closed(path_cmds) ==
    LET on == {n \in 1..Len(path_cmds) : has_xy(path_cmds[n])}
        last == CHOOSE m \in on : \A n \in on : n <= m
    IN  IF on = {} THEN None
        ELSE IF path_cmds[Len(path_cmds)].k = "Z"
             THEN <<path_cmds[Min(on)].x, path_cmds[Min(on)].y>>
        ELSE <<path_cmds[last].x, path_cmds[last].y>>

_end(path_cmds) ==
    LET on == {n \in 1..Len(path_cmds) : has_xy(path_cmds[n])}
        last == CHOOSE m \in on : \A n \in on : n <= m
    IN  IF on = {} THEN None
        ELSE <<path_cmds[last].x, path_cmds[last].y>>

\* Mutant of _is_closed: a path whose end coincides with its start counts
\* as closed too.
_is_closed_loose(path) ==
    \/ Len(path) > 0 /\ path[Len(path)].k = "Z"
    \/ _start(path) # None /\ _start(path) = _end(path)

_is_closed(path) == Len(path) > 0 /\ path[Len(path)].k = "Z"

RECURSIVE _strip_close(_)
_strip_close(path) ==
    IF path # <<>> /\ path[Len(path)].k = "Z"
    THEN _strip_close(SubSeq(path, 1, Len(path) - 1))
    ELSE path

\* Mutant of _reverse_path: the points are reversed but the first one, which
\* stays the Move.
_reverse_path_tail(path) ==
    LET n == Len(path)
    IN  << path[1] >>
        \o [m \in 1..(n - 1) |-> Line(<<path[n + 1 - m].x, path[n + 1 - m].y>>)]

\* inkex Path.reverse() on a path of one Move followed by Lines: a Move to
\* the last point, then a Line back to each earlier point.
_reverse_path(path) ==
    LET n == Len(path)
    IN  << Move(<<path[n].x, path[n].y>>) >>
        \o [m \in 1..(n - 1) |-> Line(<<path[n - m].x, path[n - m].y>>)]

_count_nodes(path) == Len(SelectSeq(path, has_xy))

\* node.composed_transform(): the transforms of the node's ancestors, then
\* the node's own transform attribute; all of them translations <<tx, ty>>.
composed_transform(node) ==
    << node.ancestors[1] + node.transform[1],
       node.ancestors[2] + node.transform[2] >>

\* to_absolute() of an absolute path, then the composed transform (<<0, 0>>
\* is the identity, which is skipped).
_flatten_path(node) ==
    LET ctm == composed_transform(node)
    IN  IF ctm = <<0, 0>> THEN node.path
        ELSE [n \in 1..Len(node.path) |->
                IF has_xy(node.path[n])
                THEN [node.path[n] EXCEPT !.x = @ + ctm[1], !.y = @ + ctm[2]]
                ELSE node.path[n]]

\* Mutant of _concat_paths: the first Move of path_b is not dropped.
_concat_paths_keep_move(path_a, path_b) ==
    LET NotClose(cmd) == cmd.k # "Z"
    IN  path_a \o SelectSeq(path_b, NotClose)

_concat_paths(path_a, path_b) ==
    LET rest == IF path_b # <<>> /\ path_b[1].k = "M" THEN Tail(path_b) ELSE path_b
        NotClose(cmd) == cmd.k # "Z"
    IN  path_a \o SelectSeq(rest, NotClose)

\* Mutant of _try_merge: the start-start rule is missing.
_try_merge_no_start_start(a, b, tol) ==
    LET pa == _strip_close(a.path)
        pb == _strip_close(b.path)
    IN  IF None \in {_start(pa), _end(pa), _start(pb), _end(pb)} THEN <<>>
        ELSE IF _distance_le(_end(pa), _start(pb), tol)
             THEN << [node |-> a.node, path |-> _concat_paths(pa, pb)] >>
        ELSE IF _distance_le(_end(pa), _end(pb), tol)
             THEN << [node |-> a.node, path |-> _concat_paths(pa, _reverse_path(pb))] >>
        ELSE IF _distance_le(_start(pa), _end(pb), tol)
             THEN << [node |-> a.node, path |-> _concat_paths(pb, pa)] >>
        ELSE <<>>

\* Mutant of _try_merge: end-end is tried before end-start.
_try_merge_end_end_first(a, b, tol) ==
    LET pa == _strip_close(a.path)
        pb == _strip_close(b.path)
    IN  IF None \in {_start(pa), _end(pa), _start(pb), _end(pb)} THEN <<>>
        ELSE IF _distance_le(_end(pa), _end(pb), tol)
             THEN << [node |-> a.node, path |-> _concat_paths(pa, _reverse_path(pb))] >>
        ELSE IF _distance_le(_end(pa), _start(pb), tol)
             THEN << [node |-> a.node, path |-> _concat_paths(pa, pb)] >>
        ELSE IF _distance_le(_start(pa), _end(pb), tol)
             THEN << [node |-> a.node, path |-> _concat_paths(pb, pa)] >>
        ELSE IF _distance_le(_start(pa), _start(pb), tol)
             THEN << [node |-> a.node, path |-> _concat_paths(_reverse_path(pb), pa)] >>
        ELSE <<>>

\* Mutant of _try_merge: where b's geometry comes first, b's node is kept.
_try_merge_keep_first(a, b, tol) ==
    LET pa == _strip_close(a.path)
        pb == _strip_close(b.path)
    IN  IF None \in {_start(pa), _end(pa), _start(pb), _end(pb)} THEN <<>>
        ELSE IF _distance_le(_end(pa), _start(pb), tol)
             THEN << [node |-> a.node, path |-> _concat_paths(pa, pb)] >>
        ELSE IF _distance_le(_end(pa), _end(pb), tol)
             THEN << [node |-> a.node, path |-> _concat_paths(pa, _reverse_path(pb))] >>
        ELSE IF _distance_le(_start(pa), _end(pb), tol)
             THEN << [node |-> b.node, path |-> _concat_paths(pb, pa)] >>
        ELSE IF _distance_le(_start(pa), _start(pb), tol)
             THEN << [node |-> b.node, path |-> _concat_paths(_reverse_path(pb), pa)] >>
        ELSE <<>>

\* Mutant of _try_merge: only the end-start rule is tried.
_try_merge_end_start_only(a, b, tol) ==
    LET pa == _strip_close(a.path)
        pb == _strip_close(b.path)
    IN  IF None \in {_start(pa), _end(pa), _start(pb), _end(pb)} THEN <<>>
        ELSE IF _distance_le(_end(pa), _start(pb), tol)
             THEN << [node |-> a.node, path |-> _concat_paths(pa, pb)] >>
        ELSE <<>>

\* Mutant of _try_merge: where a's geometry comes first, a's path is
\* concatenated with its trailing ZoneClose still in place.
_try_merge_keep_close(a, b, tol) ==
    LET pa == _strip_close(a.path)
        pb == _strip_close(b.path)
    IN  IF None \in {_start(pa), _end(pa), _start(pb), _end(pb)} THEN <<>>
        ELSE IF _distance_le(_end(pa), _start(pb), tol)
             THEN << [node |-> a.node, path |-> _concat_paths(a.path, pb)] >>
        ELSE IF _distance_le(_end(pa), _end(pb), tol)
             THEN << [node |-> a.node, path |-> _concat_paths(a.path, _reverse_path(pb))] >>
        ELSE IF _distance_le(_start(pa), _end(pb), tol)
             THEN << [node |-> a.node, path |-> _concat_paths(pb, pa)] >>
        ELSE IF _distance_le(_start(pa), _start(pb), tol)
             THEN << [node |-> a.node, path |-> _concat_paths(_reverse_path(pb), pa)] >>
        ELSE <<>>

\* <<>> for None, else a one-element sequence holding the new chain.
_try_merge(a, b, tol) ==
    LET pa == _strip_close(a.path)
        pb == _strip_close(b.path)
        a_start == _start(pa)
        a_end == _end(pa)
        b_start == _start(pb)
        b_end == _end(pb)
        keep_node == a.node
    IN  IF None \in {a_start, a_end, b_start, b_end} THEN <<>>
        ELSE IF _distance_le(a_end, b_start, tol)
             THEN << [node |-> keep_node, path |-> _concat_paths(pa, pb)] >>
        ELSE IF _distance_le(a_end, b_end, tol)
             THEN << [node |-> keep_node, path |-> _concat_paths(pa, _reverse_path(pb))] >>
        ELSE IF _distance_le(a_start, b_end, tol)
             THEN << [node |-> keep_node, path |-> _concat_paths(pb, pa)] >>
        ELSE IF _distance_le(a_start, b_start, tol)
             THEN << [node |-> keep_node, path |-> _concat_paths(_reverse_path(pb), pa)] >>
        ELSE <<>>

-----------------------------------------------------------------------------
(* The pair scan shared by both routines: the three nested while loops.    *)

\* Control flow from the head of the inner "while j < len(chains)" loop to
\* the next evaluation of _try_merge, or out of the outer loop: the inner
\* loop ends when j reaches n, "i += 1" starts the next row with j = i + 1,
\* and when i reaches n the pass ends; the outer loop then starts another
\* pass (changed = False, i = 0) iff changed is set.
\* Mutant of scan_loop: the outer loop never starts a second pass.
RECURSIVE scan_loop_once(_, _, _, _, _)
scan_loop_once(ci, cj, n, ch, np) ==
    IF cj < n
    THEN [pc |-> "scan", i |-> ci, j |-> cj, changed |-> ch, passes |-> np]
    ELSE IF ci + 1 < n
    THEN scan_loop_once(ci + 1, ci + 2, n, ch, np)
    ELSE [pc |-> "close", i |-> 0, j |-> 0, changed |-> FALSE, passes |-> np]

\* Mutant of scan_loop: the outer loop starts another pass whenever two
\* chains are left, whether or not the last pass fused anything.
RECURSIVE scan_loop_forever(_, _, _, _, _)
scan_loop_forever(ci, cj, n, ch, np) ==
    IF cj < n
    THEN [pc |-> "scan", i |-> ci, j |-> cj, changed |-> ch, passes |-> np]
    ELSE IF ci + 1 < n
    THEN scan_loop_forever(ci + 1, ci + 2, n, ch, np)
    ELSE IF n >= 2
    THEN [pc |-> "scan", i |-> 0, j |-> 1, changed |-> FALSE, passes |-> np]
    ELSE [pc |-> "close", i |-> 0, j |-> 0, changed |-> FALSE, passes |-> np]

RECURSIVE scan_loop(_, _, _, _, _)
scan_loop(ci, cj, n, ch, np) ==
    IF cj < n
    THEN [pc |-> "scan", i |-> ci, j |-> cj, changed |-> ch, passes |-> np]
    ELSE IF ci + 1 < n
    THEN scan_loop(ci + 1, ci + 2, n, ch, np)
    ELSE IF ch
    THEN scan_loop(0, 1, n, FALSE, np + 1)
    ELSE [pc |-> "close", i |-> 0, j |-> 0, changed |-> FALSE, passes |-> np]

\* Mutant of fuse: the fused chain takes the place of chain j and chain i
\* is the one removed.
fuse_at_j(cs, ci, cj, merged) ==
    [n \in 1..(Len(cs) - 1) |->
        IF n = cj THEN merged
        ELSE IF n < ci + 1 THEN cs[n]
        ELSE cs[n + 1]]

\* Mutant of fuse: chain j stays in the list after the fusion.
fuse_no_pop(cs, ci, cj, merged) ==
    [n \in 1..Len(cs) |-> IF n = ci + 1 THEN merged ELSE cs[n]]

\* chains[i] = merged; chains.pop(j)   (cursors are 0-based, as in the code)
fuse(cs, ci, cj, merged) ==
    [n \in 1..(Len(cs) - 1) |->
        IF n = ci + 1 THEN merged
        ELSE IF n < cj + 1 THEN cs[n]
        ELSE cs[n + 1]]

-----------------------------------------------------------------------------
(* join_path_elements (src/join_paths.py).                                 *)

\* Lines 160-171: flatten every node, count its nodes, enter the scan.
join_path_elements_begin ==
    /\ pc = "start"
    /\ impl = "inkex"
    /\ LET cs == [n \in 1..Len(path_nodes) |->
                    [node |-> path_nodes[n],
                     path |-> _flatten_path(doc[path_nodes[n]])]]
           at == scan_loop(0, 1, Len(cs), FALSE, 1)
       IN  /\ chains' = cs
           /\ members' = [n \in 1..Len(cs) |-> {n}]
           /\ nodes_before' =
                Sum([n \in 1..Len(cs) |-> _count_nodes(cs[n].path)], Len(cs))
           /\ pc' = at.pc
           /\ i' = at.i
           /\ j' = at.j
           /\ changed' = at.changed
           /\ passes' = at.passes
    /\ joins' = 0
    /\ UNCHANGED <<xform, stroke, impl, input, tolerance, auto_close, path_nodes, path_list,
                   doc, closed_count, nodes_after, stats, run, first>>

\* Mutant of remove_node: the absorbed node stays in the document.
remove_node_skip(d, gone) == d

\* Lines 177-179: parent.remove(chains[j]["node"])
remove_node(d, gone) == [d EXCEPT ![gone].attached = FALSE]

\* Lines 175-186: one evaluation of _try_merge on the pair (i, j).
join_path_elements_scan ==
    /\ pc = "scan"
    /\ impl = "inkex"
    /\ LET merged == _try_merge(chains[i + 1], chains[j + 1], tolerance)
           gone == chains[j + 1].node
           at == IF merged # <<>>
                 THEN scan_loop(i, i + 1, Len(chains) - 1, TRUE, passes)
                 ELSE scan_loop(i, j + 1, Len(chains), changed, passes)
       IN  /\ IF merged # <<>>
              THEN /\ doc' = remove_node(doc, gone)
                   /\ chains' = fuse(chains, i, j, merged[1])
                   /\ members' = fuse(members, i, j,
                                      members[i + 1] \cup members[j + 1])
                   /\ joins' = joins + 1
              ELSE UNCHANGED <<doc, chains, members, joins>>
           /\ pc' = at.pc
           /\ i' = at.i
           /\ j' = at.j
           /\ changed' = at.changed
           /\ passes' = at.passes
    /\ UNCHANGED <<xform, stroke, impl, input, tolerance, auto_close, path_nodes, path_list,
                   closed_count, nodes_before, nodes_after, stats, run, first>>

\* Mutant of closes: a path that already ends in ZoneClose is closed again.
closes_again(path, tol, ac) ==
    /\ ac
    /\ _start(path) # None
    /\ _end(path) # None
    /\ _distance_le(_start(path), _end(path), tol)

\* Lines 195-207: whether the auto-close branch is taken for a chain's path.
closes(path, tol, ac) ==
    /\ ac
    /\ _start(path) # None
    /\ _end(path) # None
    /\ ~_is_closed(path)
    /\ _distance_le(_start(path), _end(path), tol)

\* Lines 192-209: the path written to the chain's node.
written_path(path, tol, ac) ==
    IF closes(path, tol, ac) THEN path \o << ZoneClose >> ELSE path

\* Lines 189-222: the loop over the surviving chains and the return.
join_path_elements_close ==
    /\ pc = "close"
    /\ impl = "inkex"
    /\ LET out == [n \in 1..Len(chains) |->
                     written_path(chains[n].path, tolerance, auto_close)]
           cc == Cardinality({n \in 1..Len(chains) :
                                closes(chains[n].path, tolerance, auto_close)})
           na == Sum([n \in 1..Len(chains) |-> _count_nodes(out[n])], Len(chains))
       IN  /\ closed_count' = cc
           /\ nodes_after' = na
           /\ doc' = [d \in DOMAIN doc |->
                        IF \E n \in 1..Len(chains) : chains[n].node = d
                        THEN LET n == CHOOSE m \in 1..Len(chains) : chains[m].node = d
                             IN  [path |-> out[n], transform |-> <<0, 0>>,
                                  ancestors |-> doc[d].ancestors,
                                  attached |-> doc[d].attached]
                        ELSE doc[d]]
           /\ stats' = [joins |-> joins, closed |-> cc,
                        paths_before |-> Len(path_nodes),
                        paths_after |-> Len(chains),
                        nodes_before |-> nodes_before,
                        nodes_after |-> na]
    /\ pc' = "done"
    /\ UNCHANGED <<xform, stroke, impl, input, tolerance, auto_close, path_nodes, path_list,
                   chains, i, j, changed, passes, joins, nodes_before, run,
                   first, members>>

-----------------------------------------------------------------------------
(* join_paths (src/standalone/svg_utils.py): svgpathtools paths, each a    *)
(* sequence of Line segments with a start and an end point.                *)

Seg(s, e) == [start |-> s, end |-> e]

\* parse_path of the polyline's path data: one Line per consecutive pair of
\* points, and for a closing Z a Line back to the first point unless the pen
\* is already there.  A lone MoveTo yields the empty Path.
parse_path(poly) ==
    LET n == Len(poly.pts)
    IN  IF n = 0 THEN <<>>
        ELSE [m \in 1..(n - 1) |-> Seg(poly.pts[m], poly.pts[m + 1])]
             \o (IF poly.z /\ poly.pts[n] # poly.pts[1]
                 THEN << Seg(poly.pts[n], poly.pts[1]) >> ELSE <<>>)

\* Path.start / Path.end index the segment list: IndexError on an empty Path.
raises(p) == p = <<>>
path_start(p) == p[1].start
path_end(p) == p[Len(p)].end

\* distance(p1, p2) <= tol, with distance = abs(p1 - p2) >= 0
distance_le(p1, p2, tol) ==
    /\ tol >= 0
    /\ (p1[1] - p2[1]) * (p1[1] - p2[1]) + (p1[2] - p2[2]) * (p1[2] - p2[2])
         <= tol * tol

\* 0 < distance(p1, p2)
distance_pos(p1, p2) == p1 # p2

reversed(p) ==
    [m \in 1..Len(p) |-> Seg(p[Len(p) + 1 - m].end, p[Len(p) + 1 - m].start)]

concatpaths(a, b) == a \o b

\* [raised |-> TRUE] when a.end or b.start raises; else merged is <<>> for
\* None or a one-element sequence holding the merged Path.
svg_try_merge(a, b, tol) ==
    IF raises(a) \/ raises(b) THEN [raised |-> TRUE, merged |-> <<>>]
    ELSE IF distance_le(path_end(a), path_start(b), tol)
         THEN [raised |-> FALSE, merged |-> << concatpaths(a, b) >>]
    ELSE IF distance_le(path_end(a), path_end(b), tol)
         THEN [raised |-> FALSE, merged |-> << concatpaths(a, reversed(b)) >>]
    ELSE IF distance_le(path_start(a), path_end(b), tol)
         THEN [raised |-> FALSE, merged |-> << concatpaths(b, a) >>]
    ELSE IF distance_le(path_start(a), path_start(b), tol)
         THEN [raised |-> FALSE, merged |-> << concatpaths(reversed(b), a) >>]
    ELSE [raised |-> FALSE, merged |-> <<>>]

\* Lines 174-181: copy the list and enter the scan.
join_paths_begin ==
    /\ pc = "start"
    /\ impl = "standalone"
    /\ LET at == scan_loop(0, 1, Len(path_list), FALSE, 1)
       IN  /\ chains' = path_list
           /\ members' = [n \in 1..Len(path_list) |-> {n}]
           /\ pc' = at.pc
           /\ i' = at.i
           /\ j' = at.j
           /\ changed' = at.changed
           /\ passes' = at.passes
    /\ joins' = 0
    /\ UNCHANGED <<xform, stroke, impl, input, tolerance, auto_close, path_nodes, path_list,
                   doc, closed_count, nodes_before, nodes_after, stats, run,
                   first>>

\* Lines 183-191: one evaluation of _try_merge on the pair (i, j).
join_paths_scan ==
    /\ pc = "scan"
    /\ impl = "standalone"
    /\ LET r == svg_try_merge(chains[i + 1], chains[j + 1], tolerance)
           at == IF r.merged # <<>>
                 THEN scan_loop(i, i + 1, Len(chains) - 1, TRUE, passes)
                 ELSE scan_loop(i, j + 1, Len(chains), changed, passes)
       IN  IF r.raised
           THEN /\ pc' = "error"
                /\ UNCHANGED <<chains, members, joins, i, j, changed, passes>>
           ELSE /\ IF r.merged # <<>>
                   THEN /\ chains' = fuse(chains, i, j, r.merged[1])
                        /\ members' = fuse(members, i, j,
                                           members[i + 1] \cup members[j + 1])
                        /\ joins' = joins + 1
                   ELSE UNCHANGED <<chains, members, joins>>
                /\ pc' = at.pc
                /\ i' = at.i
                /\ j' = at.j
                /\ changed' = at.changed
                /\ passes' = at.passes
    /\ UNCHANGED <<xform, stroke, impl, input, tolerance, auto_close, path_nodes, path_list,
                   doc, closed_count, nodes_before, nodes_after, stats, run,
                   first>>

\* Line 198: len(p) > 0 and 0 < d <= tolerance, for a Path that has a start.
svg_closes(p, tol) ==
    /\ Len(p) > 0
    /\ distance_pos(path_start(p), path_end(p))
    /\ distance_le(path_start(p), path_end(p), tol)

\* Line 199: chains[idx].append(Line(p.end, p.start))
svg_closed_path(p, tol) ==
    IF svg_closes(p, tol) THEN p \o << Seg(path_end(p), path_start(p)) >> ELSE p

\* Lines 194-207: the auto-close loop and the return.  The loop evaluates
\* p.start for every chain in order, so it stops with IndexError at the
\* first empty Path, the chains before it already closed.  chains is a
\* shallow copy of path_list (line 174) and append works in place, so a
\* closed chain that was never fused is closed in the caller's list too.
join_paths_close ==
    /\ pc = "close"
    /\ impl = "standalone"
    /\ LET empty == {n \in 1..Len(chains) : raises(chains[n])}
           upto == IF ~auto_close THEN 0
                   ELSE IF empty = {} THEN Len(chains)
                   ELSE Min(empty) - 1
           hit == {n \in 1..upto : svg_closes(chains[n], tolerance)}
       IN  /\ chains' = [n \in 1..Len(chains) |->
                           IF n \in hit THEN svg_closed_path(chains[n], tolerance)
                           ELSE chains[n]]
           /\ path_list' = [k \in 1..Len(path_list) |->
                              IF \E n \in hit : members[n] = {k}
                              THEN svg_closed_path(path_list[k], tolerance)
                              ELSE path_list[k]]
           /\ closed_count' = Cardinality(hit)
           /\ IF auto_close /\ empty # {}
              THEN /\ pc' = "error"
                   /\ stats' = stats
              ELSE /\ pc' = "done"
                   /\ stats' = [joins |-> joins, closed |-> Cardinality(hit),
                                paths_before |-> Len(path_list),
                                paths_after |-> Len(chains)]
    /\ UNCHANGED <<xform, stroke, impl, input, tolerance, auto_close, path_nodes,
                   doc, i, j, changed, passes, joins, nodes_before,
                   nodes_after, run, first, members>>

\* Path.d(), the path data join_all_paths writes for a returned Path
\* (src/standalone/join_paths.py line 77), as Move / Line commands: a Move
\* to the start of the first segment and of every segment that does not
\* start where the previous one ended, and a Line to the end of each.
RECURSIVE path_d(_)
path_d(p) ==
    IF p = <<>> THEN <<>>
    ELSE LET n == Len(p)
         IN  path_d(SubSeq(p, 1, n - 1))
             \o (IF n = 1 \/ p[n].start # p[n - 1].end
                 THEN << Move(p[n].start) >> ELSE <<>>)
             \o << Line(p[n].end) >>

-----------------------------------------------------------------------------
(* The caller.                                                             *)

\* The chain list a returned call hands back: for join_path_elements the
\* surviving nodes with the paths written to them, for join_paths the list.
output ==
    IF impl = "inkex"
    THEN [n \in 1..Len(chains) |->
            [node |-> chains[n].node, path |-> doc[chains[n].node].path]]
    ELSE chains

\* The caller runs the routine again on what the first call returned, with
\* the same tolerance and auto_close.
run_again ==
    /\ pc = "done"
    /\ run = 1
    /\ run' = 2
    /\ first' = output
    /\ path_nodes' = IF impl = "inkex"
                     THEN [n \in 1..Len(chains) |-> chains[n].node] ELSE path_nodes
    /\ path_list' = IF impl = "inkex" THEN path_list ELSE chains
    /\ pc' = "start"
    /\ chains' = <<>>
    /\ members' = <<>>
    /\ i' = 0
    /\ j' = 0
    /\ changed' = TRUE
    /\ passes' = 0
    /\ joins' = 0
    /\ closed_count' = 0
    /\ nodes_before' = 0
    /\ nodes_after' = 0
    /\ stats' = <<>>
    /\ UNCHANGED <<xform, stroke, impl, input, tolerance, auto_close, doc>>

\* A call of routine im on nodes whose own transform is own[n] and whose
\* ancestors' transforms compose to anc.
InitNodes(im, own, anc) ==
    /\ impl = im
    /\ input \in PolyLists
    /\ tolerance \in Tolerances
    /\ auto_close \in BOOLEAN
    /\ path_nodes = IF im = "inkex" THEN [n \in 1..Len(input) |-> n] ELSE <<>>
    /\ path_list = IF im = "inkex" THEN <<>>
                   ELSE [n \in 1..Len(input) |-> parse_path(input[n])]
    /\ doc = IF im = "inkex"
             THEN [n \in 1..Len(input) |->
                     [path |-> node_path(input[n]), transform |-> own[n],
                      ancestors |-> anc, attached |-> TRUE]]
             ELSE <<>>
    /\ chains = <<>>
    /\ i = 0
    /\ j = 0
    /\ changed = TRUE
    /\ passes = 0
    /\ joins = 0
    /\ closed_count = 0
    /\ nodes_before = 0
    /\ nodes_after = 0
    /\ stats = <<>>
    /\ pc = "start"
    /\ run = 1
    /\ first = <<>>
    /\ members = <<>>
    /\ stroke = [pc |-> "idle"]
    /\ xform = [pc |-> "idle"]

\* A call on paths that carry no transform and have no transformed ancestor.
InitWith(im) == InitNodes(im, [n \in 1..MaxPaths |-> <<0, 0>>], <<0, 0>>)

Init == \E im \in {"inkex", "standalone"} : InitWith(im)

Next ==
    \/ join_path_elements_begin
    \/ join_path_elements_scan
    \/ join_path_elements_close
    \/ join_paths_begin
    \/ join_paths_scan
    \/ join_paths_close

Spec == Init /\ [][Next]_vars

\* The interpreter keeps executing a call that has a step to take.
SpecFair == Spec /\ WF_vars(Next)

\* join_path_elements on nodes that may carry a transform attribute and
\* that sit in a group which may carry one too.
Translations == {<<0, 0>>, <<1, 0>>}

InitDoc ==
    \E own \in [1..MaxPaths -> Translations], anc \in Translations :
        /\ InitNodes("inkex", own, anc)
        /\ \A n \in 1..MaxPaths : n > Len(input) => own[n] = <<0, 0>>

NextDoc ==
    \/ join_path_elements_begin
    \/ join_path_elements_scan
    \/ join_path_elements_close

SpecDoc == InitDoc /\ [][NextDoc]_vars

\* Two calls in a row: the second on the output of the first.
NextTwice == Next \/ run_again

SpecTwice == Init /\ [][NextTwice]_vars

\* The groups of a returned call: for each surviving chain the set of the
\* input paths (positions in input) fused into it.
groups(order) ==
    {{order[k] : k \in members[n]} : n \in 1..Len(members)}

\* The caller calls the routine on the same paths, as they were given, in
\* another order, with the same tolerance and auto_close; first keeps the
\* groups of the first call and the order of the second.
run_reordered ==
    /\ pc = "done"
    /\ run = 1
    /\ \E order \in Permutations(1..Len(input)) :
          /\ order # [n \in 1..Len(input) |-> n]
          /\ first' = [groups |-> groups([n \in 1..Len(input) |-> n]),
                       order |-> order]
          /\ path_nodes' = IF impl = "inkex" THEN order ELSE <<>>
          /\ path_list' = IF impl = "inkex" THEN <<>>
                          ELSE [n \in 1..Len(input) |-> parse_path(input[order[n]])]
    /\ doc' = IF impl = "inkex"
              THEN [n \in 1..Len(input) |->
                      [path |-> node_path(input[n]), transform |-> <<0, 0>>,
                       ancestors |-> <<0, 0>>, attached |-> TRUE]]
              ELSE <<>>
    /\ run' = 3
    /\ pc' = "start"
    /\ chains' = <<>>
    /\ members' = <<>>
    /\ i' = 0
    /\ j' = 0
    /\ changed' = TRUE
    /\ passes' = 0
    /\ joins' = 0
    /\ closed_count' = 0
    /\ nodes_before' = 0
    /\ nodes_after' = 0
    /\ stats' = <<>>
    /\ UNCHANGED <<xform, stroke, impl, input, tolerance, auto_close>>

\* Two calls on the same paths in two orders, with a valid tolerance.
InitOrders == Init /\ tolerance >= 0 /\ Len(input) >= 2

NextOrders == Next \/ run_reordered

SpecOrders == InitOrders /\ [][NextOrders]_vars

\* The caller gives the same paths, as they were given, with the same
\* tolerance and auto_close, to the other routine; first keeps the stats
\* and the groups, in output order, of the first call.
run_other ==
    /\ pc = "done"
    /\ run = 1
    /\ first' = [stats |-> stats, groups |-> members]
    /\ impl' = IF impl = "inkex" THEN "standalone" ELSE "inkex"
    /\ path_nodes' = IF impl' = "inkex" THEN [n \in 1..Len(input) |-> n]
                     ELSE <<>>
    /\ path_list' = IF impl' = "inkex" THEN <<>>
                    ELSE [n \in 1..Len(input) |-> parse_path(input[n])]
    /\ doc' = IF impl' = "inkex"
              THEN [n \in 1..Len(input) |->
                      [path |-> node_path(input[n]), transform |-> <<0, 0>>,
                       ancestors |-> <<0, 0>>, attached |-> TRUE]]
              ELSE <<>>
    /\ run' = 4
    /\ pc' = "start"
    /\ chains' = <<>>
    /\ members' = <<>>
    /\ i' = 0
    /\ j' = 0
    /\ changed' = TRUE
    /\ passes' = 0
    /\ joins' = 0
    /\ closed_count' = 0
    /\ nodes_before' = 0
    /\ nodes_after' = 0
    /\ stats' = <<>>
    /\ UNCHANGED <<xform, stroke, input, tolerance, auto_close>>

\* The two routines, one after the other, on the same paths.
NextBoth == Next \/ run_other

SpecBoth == Init /\ [][NextBoth]_vars

-----------------------------------------------------------------------------
(* stroke_to_path (src/standalone/svg_utils.py).  The stroked Paths are    *)
(* made of svgpathtools Lines that are horizontal, vertical or of length   *)
(* zero, and the widths are even, so that unit normals, half widths and    *)
(* the sampled points are integers.  One step per iteration of the loop    *)
(* over the segments, and one for the rest of the function.                *)

\* Most segments of a stroked Path.
MaxSegs == 2

StrokePoints == {<<0, 0>>, <<10, 0>>, <<10, 10>>}

StrokeSegs ==
    {Seg(pq[1], pq[2]) : pq \in {xy \in StrokePoints \X StrokePoints :
                                    xy[1][1] = xy[2][1] \/ xy[1][2] = xy[2][2]}}

StrokePaths == UNION {[1..n -> StrokeSegs] : n \in 0..MaxSegs}

Widths == {-2, 0, 2}

SamplesPerSegment == {0, 1, 2}

CloseTolerances == {0, 10}

merge_vars == <<impl, input, tolerance, auto_close, path_nodes, path_list,
                doc, chains, i, j, changed, passes, joins, closed_count,
                nodes_before, nodes_after, stats, pc, run, first, members,
                xform>>

\* Line.point(t) at t = k / samples: start + (end - start) * t
point(segment, k, samples) ==
    << segment.start[1] + ((segment.end[1] - segment.start[1]) * k) \div samples,
       segment.start[2] + ((segment.end[2] - segment.start[2]) * k) \div samples >>

sign(x) == IF x > 0 THEN 1 ELSE IF x < 0 THEN -1 ELSE 0

\* Line.normal(t) = -1j * unit_tangent: the tangent (ux, uy) turned into
\* (uy, -ux).  A Line of length zero divides by zero, and line 220 falls
\* back to n = 1j.
normal(segment) ==
    LET ux == sign(segment.end[1] - segment.start[1])
        uy == sign(segment.end[2] - segment.start[2])
    IN  IF segment.start = segment.end THEN <<0, 1>> ELSE <<uy, -ux>>

\* Lines 212-223, for samples >= 1: samples + 1 points pt + offset * n.
_offset_segment(segment, offset, samples) ==
    [k \in 1..(samples + 1) |->
        << point(segment, k - 1, samples)[1] + offset * normal(segment)[1],
           point(segment, k - 1, samples)[2] + offset * normal(segment)[2] >>]

\* Lines 226-232.
_pts_to_closed_loop(pts) ==
    IF Len(pts) < 2 THEN <<>>
    ELSE [k \in 1..(Len(pts) - 1) |-> Seg(pts[k], pts[k + 1])]
         \o << Seg(pts[Len(pts)], pts[1]) >>

\* Mutant of list_reverse: the list is left in its order.
list_keep(pts) == pts

\* list.reverse()
list_reverse(pts) == [k \in 1..Len(pts) |-> pts[Len(pts) + 1 - k]]

\* Mutant of is_closed: the comparison is strict.
is_closed_strict(start, end, close_tolerance) ==
    (start[1] - end[1]) * (start[1] - end[1])
        + (start[2] - end[2]) * (start[2] - end[2])
    < close_tolerance * close_tolerance

\* Line 269: abs(start - end) <= close_tolerance, close_tolerance >= 0.
is_closed(start, end, close_tolerance) ==
    (start[1] - end[1]) * (start[1] - end[1])
        + (start[2] - end[2]) * (start[2] - end[2])
    <= close_tolerance * close_tolerance

\* Lines 259-262: one iteration of "for seg in svg_path".  With
\* samples_per_segment = 0 the first t = i / samples divides by zero
\* outside the try block, and the call ends in ZeroDivisionError.
stroke_to_path_sample ==
    /\ stroke.pc = "sample"
    /\ stroke.seg <= Len(stroke.svg_path)
    /\ LET seg == stroke.svg_path[stroke.seg]
           half == stroke.width \div 2
           n == stroke.samples_per_segment
       IN  IF n = 0
           THEN stroke' = [stroke EXCEPT !.pc = "error"]
           ELSE stroke' = [stroke EXCEPT
                    !.left_pts = @ \o _offset_segment(seg, half, n),
                    !.right_pts = @ \o _offset_segment(seg, 0 - half, n),
                    !.seg = @ + 1]
    /\ UNCHANGED merge_vars

\* Mutant of stroke_outline: no early return; a loop is always built.
stroke_outline_always(svg_path, left_pts, right_pts, close_tolerance) ==
    [same |-> FALSE,
     path |-> _pts_to_closed_loop(left_pts \o list_reverse(right_pts))]

\* Lines 264-283: the value returned once every segment is sampled: path,
\* and same = TRUE when it is the svg_path object itself (line 265) rather
\* than a new Path.
stroke_outline(svg_path, left_pts, right_pts, close_tolerance) ==
    IF Len(left_pts) < 2 THEN [same |-> TRUE, path |-> svg_path]
    ELSE IF is_closed(path_start(svg_path), path_end(svg_path), close_tolerance)
    THEN [same |-> FALSE,
          path |-> _pts_to_closed_loop(left_pts)
                   \o _pts_to_closed_loop(list_reverse(right_pts))]
    ELSE [same |-> FALSE,
          path |-> _pts_to_closed_loop(left_pts \o list_reverse(right_pts))]

stroke_to_path_return ==
    /\ stroke.pc = "sample"
    /\ stroke.seg > Len(stroke.svg_path)
    /\ LET r == stroke_outline(stroke.svg_path, stroke.left_pts,
                               stroke.right_pts, stroke.close_tolerance)
       IN  stroke' = [stroke EXCEPT !.pc = "done",
                                    !.out = << r.path >>,
                                    !.returned_input = r.same]
    /\ UNCHANGED merge_vars

\* A call of stroke_to_path, at the head of its loop; no merge is running.
InitStroke ==
    /\ stroke \in [pc : {"sample"}, svg_path : StrokePaths, width : Widths,
                   samples_per_segment : SamplesPerSegment,
                   close_tolerance : CloseTolerances,
                   left_pts : {<<>>}, right_pts : {<<>>}, seg : {1},
                   out : {None}, returned_input : {FALSE}]
    /\ impl = "standalone"
    /\ input = <<>>
    /\ tolerance = 0
    /\ auto_close = FALSE
    /\ path_nodes = <<>>
    /\ path_list = <<>>
    /\ doc = <<>>
    /\ chains = <<>>
    /\ i = 0
    /\ j = 0
    /\ changed = TRUE
    /\ passes = 0
    /\ joins = 0
    /\ closed_count = 0
    /\ nodes_before = 0
    /\ nodes_after = 0
    /\ stats = <<>>
    /\ pc = "idle"
    /\ run = 1
    /\ first = <<>>
    /\ members = <<>>
    /\ xform = [pc |-> "idle"]

NextStroke ==
    \/ stroke_to_path_sample
    \/ stroke_to_path_return

SpecStroke == InitStroke /\ [][NextStroke]_vars

-----------------------------------------------------------------------------
(* The affine helpers (src/standalone/svg_utils.py).  A matrix is the      *)
(* tuple <<a, b, c, d, e, f>> of the source; the transformed Paths are     *)
(* made of Lines and of one kind of elliptical Arc.                        *)

\* svgpathtools Arc(start, radius, rotation, large_arc, sweep, end), the
\* flags and the rotation left out
Arc(s, r, e) == [start |-> s, end |-> e, radius |-> r]

is_arc(seg) == "radius" \in DOMAIN seg

TransformSegs == StrokeSegs \cup {Arc(<<0, 0>>, <<5, 5>>, <<10, 0>>)}

TransformPaths == UNION {[1..n -> TransformSegs] : n \in 0..MaxSegs}

Coefficients == {-1, 0, 1, 2}

Matrices == {<<a, b, c, d, e, 0>> : a \in Coefficients, b \in Coefficients,
                                    c \in Coefficients, d \in Coefficients,
                                    e \in {0, 5}}

\* Lines 123-126.
apply_transform_to_point(matrix, p) ==
    << matrix[1] * p[1] + matrix[3] * p[2] + matrix[5],
       matrix[2] * p[1] + matrix[4] * p[2] + matrix[6] >>

\* The product of two complex numbers held as pairs.
complex_mul(z, w) == << z[1] * w[1] - z[2] * w[2], z[1] * w[2] + z[2] * w[1] >>

\* Path.scaled(sx) with sy omitted: every point becomes sx * z, and the
\* radius of an Arc sx * radius.
scaled(svg_path, sx) ==
    [k \in 1..Len(svg_path) |->
        IF is_arc(svg_path[k])
        THEN Arc(complex_mul(sx, svg_path[k].start),
                 complex_mul(sx, svg_path[k].radius),
                 complex_mul(sx, svg_path[k].end))
        ELSE Seg(complex_mul(sx, svg_path[k].start),
                 complex_mul(sx, svg_path[k].end))]

\* Path.translated(z0): every point becomes z + z0.
translated(svg_path, z0) ==
    [k \in 1..Len(svg_path) |->
        [svg_path[k] EXCEPT !.start = <<@[1] + z0[1], @[2] + z0[2]>>,
                            !.end = <<@[1] + z0[1], @[2] + z0[2]>>]]

\* Lines 134-144: z_scale = complex(a, b), z_translate = complex(e, f); the
\* entries c and d of the matrix are never read.
apply_transform_to_path(svg_path, matrix) ==
    translated(scaled(svg_path, <<matrix[1], matrix[2]>>),
               <<matrix[5], matrix[6]>>)

\* The call returns: always with a Path, there is no other outcome.
apply_transform_to_path_return ==
    /\ xform.pc = "call"
    /\ xform' = [xform EXCEPT
            !.pc = "done",
            !.outcome = "path",
            !.out = apply_transform_to_path(xform.svg_path, xform.matrix)]
    /\ UNCHANGED <<stroke, impl, input, tolerance, auto_close, path_nodes,
                   path_list, doc, chains, i, j, changed, passes, joins,
                   closed_count, nodes_before, nodes_after, stats, pc, run,
                   first, members>>

\* A call of apply_transform_to_path; no merge and no stroke is running.
InitTransform ==
    /\ xform \in [pc : {"call"}, svg_path : TransformPaths, matrix : Matrices,
                  outcome : {"none"}, out : {<<>>}]
    /\ stroke = [pc |-> "idle"]
    /\ impl = "standalone"
    /\ input = <<>>
    /\ tolerance = 0
    /\ auto_close = FALSE
    /\ path_nodes = <<>>
    /\ path_list = <<>>
    /\ doc = <<>>
    /\ chains = <<>>
    /\ i = 0
    /\ j = 0
    /\ changed = TRUE
    /\ passes = 0
    /\ joins = 0
    /\ closed_count = 0
    /\ nodes_before = 0
    /\ nodes_after = 0
    /\ stats = <<>>
    /\ pc = "idle"
    /\ run = 1
    /\ first = <<>>
    /\ members = <<>>

NextTransform == apply_transform_to_path_return

SpecTransform == InitTransform /\ [][NextTransform]_vars

-----------------------------------------------------------------------------
(* Vocabulary of the properties.                                           *)

Returned == pc = "done"

\* Start and end point of a path of either routine, None when it has none.
StartOf(p) == IF impl = "inkex" THEN _start(p)
              ELSE IF p = <<>> THEN None ELSE path_start(p)
EndOf(p) == IF impl = "inkex" THEN _end(p)
            ELSE IF p = <<>> THEN None ELSE path_end(p)
PathOf(c) == IF impl = "inkex" THEN c.path ELSE c
HasEnds(p) == StartOf(p) # None /\ EndOf(p) # None

DistSq(p, q) == (p[1] - q[1]) * (p[1] - q[1]) + (p[2] - q[2]) * (p[2] - q[2])
Near(p, q) == tolerance >= 0 /\ DistSq(p, q) <= tolerance * tolerance

\* Some endpoint of p lies within tolerance of some endpoint of q.
Touch(p, q) ==
    \/ Near(EndOf(p), StartOf(q))
    \/ Near(EndOf(p), EndOf(q))
    \/ Near(StartOf(p), EndOf(q))
    \/ Near(StartOf(p), StartOf(q))

\* The on-curve points of an inkex path, in order.
PointsOf(path) ==
    LET on == SelectSeq(path, has_xy)
    IN  [n \in 1..Len(on) |-> <<on[n].x, on[n].y>>]

Rev(s) == [n \in 1..Len(s) |-> s[Len(s) + 1 - n]]

-----------------------------------------------------------------------------
\* C1: when merge returns, no two distinct surviving chains that both have a
\* start and an end point have any of their four endpoint pairs within
\* tolerance: no further fusion is possible on the output list.
FixedPoint ==
    Returned =>
        \A a, b \in 1..Len(output) :
            (a # b /\ HasEnds(PathOf(output[a])) /\ HasEnds(PathOf(output[b])))
                => ~Touch(PathOf(output[a]), PathOf(output[b]))

\* C1 witness: a call that fused something returns two or more chains that
\* have endpoints, under a valid tolerance.
FixedPointWitness ==
    /\ Returned
    /\ joins >= 1
    /\ tolerance >= 0
    /\ \E a, b \in 1..Len(output) :
          a # b /\ HasEnds(PathOf(output[a])) /\ HasEnds(PathOf(output[b]))

\* C2: the four rules are tried in the order end-start, end-end, start-end,
\* start-start and the first one within tolerance decides the fused path:
\* concat(A,B), concat(A,reverse(B)), concat(B,A), concat(reverse(B),A); a
\* pair with no endpoint pair within tolerance is left as it is.
ExpectedFusion(A, B) ==
    IF impl = "inkex"
    THEN LET pa == PointsOf(A)
             pb == PointsOf(B)
         IN  IF Near(EndOf(A), StartOf(B)) THEN << pa \o Tail(pb) >>
             ELSE IF Near(EndOf(A), EndOf(B)) THEN << pa \o Tail(Rev(pb)) >>
             ELSE IF Near(StartOf(A), EndOf(B)) THEN << pb \o Tail(pa) >>
             ELSE IF Near(StartOf(A), StartOf(B)) THEN << Rev(pb) \o Tail(pa) >>
             ELSE <<>>
    ELSE LET flip(p) == [n \in 1..Len(p) |-> Seg(p[n].end, p[n].start)]
         IN  IF Near(EndOf(A), StartOf(B)) THEN << A \o B >>
             ELSE IF Near(EndOf(A), EndOf(B)) THEN << A \o flip(Rev(B)) >>
             ELSE IF Near(StartOf(A), EndOf(B)) THEN << B \o A >>
             ELSE IF Near(StartOf(A), StartOf(B)) THEN << flip(Rev(B)) \o A >>
             ELSE <<>>

Geometry(p) == IF impl = "inkex" THEN PointsOf(p) ELSE p

MatchRulePriorityStep ==
    (pc = "scan" /\ pc' # "error"
        /\ HasEnds(PathOf(chains[i + 1])) /\ HasEnds(PathOf(chains[j + 1])))
    => LET want == ExpectedFusion(PathOf(chains[i + 1]), PathOf(chains[j + 1]))
       IN  IF want = <<>>
           THEN chains' = chains
           ELSE /\ Len(chains') = Len(chains) - 1
                /\ Geometry(PathOf(chains'[i + 1])) = want[1]

MatchRulePriority == [][MatchRulePriorityStep]_vars

\* C2 witness: after a first fusion the scan examines a pair for which a
\* later rule and the start-start rule fire together but end-start does not.
MatchRulePriorityWitness ==
    /\ pc = "scan"
    /\ joins >= 1
    /\ LET A == PathOf(chains[i + 1])
           B == PathOf(chains[j + 1])
       IN  /\ HasEnds(A) /\ HasEnds(B)
           /\ ~Near(EndOf(A), StartOf(B))
           /\ Near(EndOf(A), EndOf(B)) \/ Near(StartOf(A), EndOf(B))
           /\ Near(StartOf(A), StartOf(B))

\* C3: the fused chain carries the identity of chain i and the identity of
\* chain j is discarded, under every rule; the identities of the working
\* list are pairwise distinct and each is the identity of an input chain.
IdentityKeptStep ==
    (impl = "inkex" /\ pc = "scan" /\ Len(chains') < Len(chains))
    => /\ chains'[i + 1].node = chains[i + 1].node
       /\ \A n \in 1..Len(chains') : chains'[n].node # chains[j + 1].node

IdentitiesDistinct ==
    (impl = "inkex" /\ pc \in {"scan", "close", "done"})
    => /\ \A a, b \in 1..Len(chains) :
             chains[a].node = chains[b].node => a = b
       /\ \A a \in 1..Len(chains) :
             \E n \in 1..Len(path_nodes) : path_nodes[n] = chains[a].node

IdentitySurvival == []IdentitiesDistinct /\ [][IdentityKeptStep]_vars

\* C3 witness: a returned chain starts where its own node's path did not,
\* so the absorbed chain's geometry was put first (start-end or start-start).
IdentitySurvivalWitness ==
    /\ impl = "inkex"
    /\ Returned
    /\ run = 1
    /\ joins >= 1
    /\ \E n \in 1..Len(chains) :
          /\ input[chains[n].node].pts # <<>>
          /\ _start(chains[n].path) # input[chains[n].node].pts[1]

\* C4: the returned stats satisfy nodes_after = nodes_before - joins; during
\* the scan the working list holds nodes_before - joins on-curve nodes (each
\* fusion drops exactly one), and auto-closing adds none.
NodeConservation ==
    impl = "inkex" =>
        /\ pc \in {"scan", "close"} =>
              Sum([n \in 1..Len(chains) |-> Len(PointsOf(chains[n].path))],
                  Len(chains)) = nodes_before - joins
        /\ Returned =>
              /\ stats.nodes_after = stats.nodes_before - stats.joins
              /\ stats.nodes_after <= stats.nodes_before
              /\ stats.nodes_after =
                    Sum([n \in 1..Len(output) |-> Len(PointsOf(output[n].path))],
                        Len(output))
              /\ run = 1 => stats.nodes_before =
                    Sum([n \in 1..Len(input) |-> Len(input[n].pts)], Len(input))

\* C4 witness: a call returns after at least one fusion and one auto-close.
NodeConservationWitness ==
    /\ impl = "inkex"
    /\ Returned
    /\ stats.joins >= 1
    /\ stats.closed >= 1

Closest(A, B) ==
    LET ds == {DistSq(EndOf(A), StartOf(B)), DistSq(EndOf(A), EndOf(B)),
               DistSq(StartOf(A), EndOf(B)), DistSq(StartOf(A), StartOf(B))}
    IN  Min(ds)

InclusiveBoundaryStep ==
    (pc = "scan" /\ pc' # "error" /\ tolerance >= 0
        /\ HasEnds(PathOf(chains[i + 1])) /\ HasEnds(PathOf(chains[j + 1])))
    => LET A == PathOf(chains[i + 1])
           B == PathOf(chains[j + 1])
           fused == Len(chains') = Len(chains) - 1 /\ joins' = joins + 1
       IN  /\ Closest(A, B) = tolerance * tolerance => fused
           /\ Closest(A, B) > tolerance * tolerance => ~fused /\ chains' = chains
           /\ Closest(A, B) < tolerance * tolerance => fused
           /\ (tolerance = 0 /\ fused) =>
                 {StartOf(A), EndOf(A)} \cap {StartOf(B), EndOf(B)} # {}

InclusiveBoundary == [][InclusiveBoundaryStep]_vars

\* C6 witness: join_paths returned a Path in which two consecutive segments
\* are exactly tolerance = 1 apart: the seam of a fusion made at the boundary.
InclusiveBoundaryWitness ==
    /\ impl = "standalone"
    /\ Returned
    /\ tolerance = 1
    /\ \E n \in 1..Len(chains) : \E m \in 1..(Len(chains[n]) - 1) :
          DistSq(chains[n][m].end, chains[n][m + 1].start) = 1

\* C7 (as claimed): with auto_close every surviving chain that has a start
\* and an end, is not already closed and has distance(start, end) <=
\* tolerance, distance 0 included, gets a closing element and is counted
\* (already closed: the path ends in ZoneClose, or is a Path parsed from
\* path data that ends in Z);
\* the count is the number of such chains; without auto_close nothing is
\* closed and the count is 0.
AlreadyClosed(p) ==
    IF impl = "inkex" THEN _is_closed(p)
    ELSE \E n \in 1..Len(input) : input[n].z /\ parse_path(input[n]) = p

Closable(p) ==
    /\ auto_close
    /\ HasEnds(p)
    /\ ~AlreadyClosed(p)
    /\ Near(StartOf(p), EndOf(p))

ClosingOf(p) ==
    IF impl = "inkex" THEN p \o << ZoneClose >>
    ELSE p \o << Seg(path_end(p), path_start(p)) >>

AutoCloseStep ==
    (pc = "close" /\ pc' = "done")
    => /\ closed_count' =
            Cardinality({n \in 1..Len(chains) : Closable(PathOf(chains[n]))})
       /\ stats'.closed = closed_count'
       /\ \A n \in 1..Len(chains) :
             PathOf(output'[n]) =
                IF Closable(PathOf(chains[n])) THEN ClosingOf(PathOf(chains[n]))
                ELSE PathOf(chains[n])

AutoCloseAsClaimed == [][AutoCloseStep]_vars

\* C8 (as claimed): a chain whose input path has fewer than two on-curve
\* points is never fused: it is in the output, its path as it was given.
Degenerate(poly) == Len(poly.pts) < 2

DegeneratePassThrough ==
    (Returned /\ run = 1) =>
        IF impl = "inkex"
        THEN \A n \in 1..Len(input) :
                Degenerate(input[n]) =>
                    /\ doc[n].attached
                    /\ \E m \in 1..Len(chains) : chains[m].node = n
                    /\ doc[n].path = node_path(input[n])
        ELSE Cardinality({m \in 1..Len(chains) : chains[m] = <<>>})
                = Cardinality({n \in 1..Len(input) : Degenerate(input[n])})

\* C9 (as claimed): merge never ends in an error.
MergeNeverFails == pc # "error"

\* C10 (as claimed): a call with a negative tolerance is rejected before any
\* work: it never gets past its start other than into the error outcome, and
\* leaves the working list, the stats and the document as they were.
InvalidToleranceRejected ==
    tolerance < 0 =>
        /\ pc \in {"start", "error"}
        /\ chains = <<>>
        /\ stats = <<>>

\* C11 (as claimed): a call of stroke_to_path with width <= 0, here on a
\* Path that has segments and with a sampling density >= 1, ends in an
\* error before any segment is sampled and returns no path.
InvalidWidthRejected ==
    (/\ stroke.pc # "idle"
     /\ stroke.width <= 0
     /\ stroke.svg_path # <<>>
     /\ stroke.samples_per_segment > 0) =>
        /\ stroke.left_pts = <<>>
        /\ stroke.right_pts = <<>>
        /\ stroke.pc # "done"
        /\ stroke.out = None

\* C12 (as claimed), for join_paths: the Path objects the caller passed are
\* in the same state during and after the call as before it; none gains or
\* loses a segment.
CallerDataUntouched ==
    (impl = "standalone" /\ run = 1) =>
        path_list = [n \in 1..Len(input) |-> parse_path(input[n])]

\* C13: when join_path_elements has returned, the nodes still attached are
\* exactly the nodes of the surviving chains; every other input node, its
\* chain absorbed by a fusion, is detached; each surviving node's path is
\* the merged path of its chain (closed when the auto-close step closed
\* it); and the number of attached input nodes is paths_after.
InPlaceUpdate ==
    (impl = "inkex" /\ run = 1 /\ Returned) =>
        /\ \A n \in 1..Len(chains) :
              /\ doc[chains[n].node].attached
              /\ chains[n].node \in members[n]
              /\ \A k \in members[n] \ {chains[n].node} : ~doc[k].attached
              /\ doc[chains[n].node].path
                    = written_path(chains[n].path, tolerance, auto_close)
              /\ Len(doc[chains[n].node].path) >= Len(chains[n].path)
        /\ UNION {members[n] : n \in 1..Len(chains)} = DOMAIN doc
        /\ Cardinality({d \in DOMAIN doc : doc[d].attached}) = stats.paths_after
        /\ stats.paths_after = Len(chains)

\* C13 witness: a returned call that absorbed one node into another and left
\* a third node alone.
InPlaceUpdateWitness ==
    /\ impl = "inkex"
    /\ run = 1
    /\ Returned
    /\ Len(input) = 3
    /\ Len(chains) = 2
    /\ \E d \in DOMAIN doc : ~doc[d].attached
    /\ \E n \in 1..Len(chains) :
          /\ Cardinality(members[n]) = 2
          /\ Len(doc[chains[n].node].path) > 2

\* C14 (as claimed): every output path of join_path_elements that ends in
\* Close got it from the auto-close step: its working path had no Close,
\* and with auto_close false no output path ends in Close.
CloseStripped ==
    (impl = "inkex" /\ run = 1 /\ Returned /\ tolerance >= 0) =>
        \A n \in 1..Len(chains) :
            _is_closed(doc[chains[n].node].path) =>
                (auto_close /\ ~_is_closed(chains[n].path))

\* C14 (amended): _try_merge strips the trailing Close of both paths of the
\* pair it fuses, so a fused output path holds no Close other than the one
\* the auto-close step appended, and none at all when auto_close is false;
\* a path that was never fused keeps the trailing Close it was given,
\* whatever auto_close is, and is otherwise closed by the auto-close step
\* alone.
HasCloseInside(path) ==
    \E m \in 1..(Len(path) - 1) : path[m].k = "Z"

AutoClosed(path) ==
    /\ auto_close
    /\ HasEnds(path)
    /\ Near(StartOf(path), EndOf(path))

CloseStrippedWhenFused ==
    (impl = "inkex" /\ run = 1 /\ Returned) =>
        \A n \in 1..Len(chains) :
            LET out == doc[chains[n].node].path
            IN  IF Cardinality(members[n]) >= 2
                THEN /\ ~HasCloseInside(out)
                     /\ ~_is_closed(chains[n].path)
                     /\ _is_closed(out) <=> AutoClosed(chains[n].path)
                ELSE \A k \in members[n] :
                        /\ input[k].z => out = node_path(input[k])
                        /\ _is_closed(out) <=>
                              (input[k].z \/ AutoClosed(node_path(input[k])))

\* C14 witness: a returned call without auto_close that fused a path given
\* with a trailing Close with another path.
CloseStrippedWitness ==
    /\ impl = "inkex"
    /\ run = 1
    /\ Returned
    /\ ~auto_close
    /\ \E n \in 1..Len(chains) :
          /\ Cardinality(members[n]) >= 2
          /\ input[chains[n].node].z
          /\ ~_is_closed(doc[chains[n].node].path)

\* C15 (as claimed): for every working path of join_path_elements that ends
\* in Close, _end(path) equals _start(path).
EndOfClosedIsStart ==
    (impl = "inkex" /\ tolerance >= 0) =>
        \A n \in 1..Len(chains) :
            _is_closed(chains[n].path) =>
                _end(chains[n].path) = _start(chains[n].path)

\* C15 (amended): _end(path) is the point of the last command that carries
\* x and y, and _start(path) the point of the first one, whether or not the
\* path ends in Close (a trailing Close changes neither); both are None
\* when there is no such command; and the pair under examination is fused
\* exactly when two of these points, one of each path, are within
\* tolerance.
EndIsLastPoint ==
    impl = "inkex" =>
        /\ \A n \in 1..Len(chains) :
              LET path == chains[n].path
                  pts == PointsOf(path)
              IN  /\ pts = <<>> => (_start(path) = None /\ _end(path) = None)
                  /\ pts # <<>> => /\ _start(path) = pts[1]
                                   /\ _end(path) = pts[Len(pts)]
                  /\ _end(_strip_close(path)) = _end(path)
                  /\ _start(_strip_close(path)) = _start(path)
        /\ pc = "scan" =>
              LET A == PointsOf(chains[i + 1].path)
                  B == PointsOf(chains[j + 1].path)
              IN  (_try_merge(chains[i + 1], chains[j + 1], tolerance) # <<>>)
                  <=> /\ A # <<>>
                      /\ B # <<>>
                      /\ \E a \in {A[1], A[Len(A)]} :
                            \E b \in {B[1], B[Len(B)]} : Near(a, b)

\* C15 witness: the scan examines a path ending in Close whose last vertex
\* is not its start, and fuses it at that last vertex with a path that does
\* not touch its start.
EndIsLastPointWitness ==
    /\ impl = "inkex"
    /\ pc = "scan"
    /\ tolerance = 0
    /\ _is_closed(chains[i + 1].path)
    /\ _end(chains[i + 1].path) # _start(chains[i + 1].path)
    /\ _start(chains[j + 1].path) = _end(chains[i + 1].path)
    /\ _end(chains[j + 1].path) # _start(chains[i + 1].path)
    /\ _try_merge(chains[i + 1], chains[j + 1], tolerance) # <<>>

\* C16 (as claimed): _is_closed(path) is true iff the path ends in Close or
\* its end coincides exactly with its start; stated for the working paths
\* of join_path_elements made of input paths with two or more points.
IsClosedLoose ==
    (impl = "inkex" /\ tolerance >= 0) =>
        \A n \in 1..Len(chains) :
            LET path == chains[n].path
            IN  (\A k \in members[n] : Len(input[k].pts) >= 2) =>
                    (_is_closed(path) <=>
                        \/ path[Len(path)] = ZoneClose
                        \/ _start(path) = _end(path))

\* C16 (amended): _is_closed(path) is true iff the last command of the path
\* is Close.  The working paths reported closed are exactly the unfused ones
\* given with a trailing Close; a path without Close whose last point is
\* its first point is reported not closed, and is what the auto-close step
\* closes and counts.
IsClosedByCloseOnly ==
    impl = "inkex" =>
        \A n \in 1..Len(chains) :
            LET path == chains[n].path
            IN  /\ _is_closed(path) <=>
                      \E k \in members[n] : members[n] = {k} /\ input[path_nodes[k]].z
                /\ (HasEnds(path) /\ StartOf(path) = EndOf(path)
                        /\ \A m \in 1..Len(path) : path[m] # ZoneClose)
                   => /\ ~_is_closed(path)
                      /\ (Returned /\ auto_close /\ tolerance >= 0)
                            => doc[chains[n].node].path = path \o << ZoneClose >>

\* C16 witness: a returned call whose auto-close step closed a fused path
\* that had come back exactly to its start.
IsClosedByCloseOnlyWitness ==
    /\ impl = "inkex"
    /\ run = 1
    /\ Returned
    /\ auto_close
    /\ tolerance = 0
    /\ stats.closed = 1
    /\ \E n \in 1..Len(chains) :
          /\ Cardinality(members[n]) >= 2
          /\ Len(PointsOf(chains[n].path)) >= 3
          /\ _start(chains[n].path) = _end(chains[n].path)
          /\ ~_is_closed(chains[n].path)
          /\ _is_closed(doc[chains[n].node].path)

\* C17 (as claimed): when the scan examines a pair with end(a) within
\* tolerance of start(b), the pair is fused into a path whose node sequence
\* is the nodes of a (trailing Close removed) followed by the nodes of b
\* without b's leading MoveTo, and which has exactly one MoveTo.
Commands(p) == IF impl = "inkex" THEN _strip_close(p) ELSE path_d(p)

MoveTos(cmds) == Cardinality({m \in 1..Len(cmds) : cmds[m].k = "M"})

ConcatStep ==
    (/\ pc = "scan"
     /\ pc' # "error"
     /\ tolerance >= 0
     /\ HasEnds(PathOf(chains[i + 1]))
     /\ HasEnds(PathOf(chains[j + 1]))
     /\ Near(EndOf(PathOf(chains[i + 1])), StartOf(PathOf(chains[j + 1]))))
    => LET a == Commands(PathOf(chains[i + 1]))
           b == Commands(PathOf(chains[j + 1]))
           ab == Commands(PathOf(chains'[i + 1]))
       IN  /\ Len(chains') = Len(chains) - 1
           /\ joins' = joins + 1
           /\ PointsOf(ab) = PointsOf(a) \o Tail(PointsOf(b))
           /\ MoveTos(ab) = MoveTos(a)
           /\ ab[1].k = "M"

ConcatAsClaimed == [][ConcatStep]_vars

EndSlots == {<<k, side>> \in (1..Len(input)) \X {"start", "end"} :
                Len(input[k].pts) >= 1}

SlotPoint(slot) ==
    IF slot[2] = "start" THEN input[slot[1]].pts[1]
    ELSE input[slot[1]].pts[Len(input[slot[1]].pts)]

Crowded ==
    \E x \in EndSlots :
        Cardinality({y \in EndSlots :
                        y[1] # x[1] /\ Near(SlotPoint(x), SlotPoint(y))}) >= 2

GroupingsDiffer ==
    /\ run = 3
    /\ Returned
    /\ groups(first.order) # first.groups

OrderSensitivity == GroupingsDiffer => Crowded

\* C19 witness: two orders of one list of paths, each with two or more
\* points, have returned different groupings, and three endpoints of three
\* different paths are mutually within tolerance.
OrderSensitivityWitness ==
    /\ GroupingsDiffer
    /\ \A k \in 1..Len(input) : Len(input[k].pts) >= 2
    /\ \E x, y, z \in EndSlots :
          /\ Cardinality({x[1], y[1], z[1]}) = 3
          /\ Near(SlotPoint(x), SlotPoint(y))
          /\ Near(SlotPoint(y), SlotPoint(z))
          /\ Near(SlotPoint(x), SlotPoint(z))

\* C20: stroke_to_path on an open Path (distance(start, end) >
\* close_tolerance) returns one closed polygon of straight segments: its
\* vertices are the left offset samples in path order, then the right
\* offset samples in reverse order, and its last segment leads back to
\* left[0].  The samples of a segment lie at distance |width / 2| on either
\* side of the sampled point, across the segment; for (0,0)->(10,0), width
\* 2 and one sample per segment the vertices are the four corners (0,1),
\* (10,1), (10,-1), (0,-1).
OpenStroke ==
    /\ stroke.pc = "done"
    /\ stroke.svg_path # <<>>
    /\ DistSq(stroke.svg_path[1].start,
              stroke.svg_path[Len(stroke.svg_path)].end)
          > stroke.close_tolerance * stroke.close_tolerance

Sampled(m) ==
    LET n == stroke.samples_per_segment
        seg == stroke.svg_path[((m - 1) \div (n + 1)) + 1]
        k == (m - 1) % (n + 1)
    IN  [pt |-> << (seg.start[1] * (n - k) + seg.end[1] * k) \div n,
                   (seg.start[2] * (n - k) + seg.end[2] * k) \div n >>,
         dir |-> << seg.end[1] - seg.start[1], seg.end[2] - seg.start[2] >>]

StrokeOpenOutline ==
    OpenStroke =>
        LET outline == stroke.out[1]
            left == stroke.left_pts
            right == stroke.right_pts
            vertices == left \o Rev(right)
            count == Len(stroke.svg_path) * (stroke.samples_per_segment + 1)
        IN  /\ Len(left) = count
            /\ Len(right) = count
            /\ \A m \in 1..count :
                  LET at == Sampled(m)
                      off == << left[m][1] - at.pt[1], left[m][2] - at.pt[2] >>
                  IN  /\ right[m] = << at.pt[1] - off[1], at.pt[2] - off[2] >>
                      /\ 4 * DistSq(left[m], at.pt) = stroke.width * stroke.width
                      /\ off[1] * at.dir[1] + off[2] * at.dir[2] = 0
            /\ Len(outline) = Len(vertices)
            /\ \A m \in 1..Len(outline) :
                  outline[m] = Seg(vertices[m], vertices[(m % Len(vertices)) + 1])
            /\ outline[Len(outline)].end = left[1]
            /\ (/\ stroke.svg_path = << Seg(<<0, 0>>, <<10, 0>>) >>
                /\ stroke.width = 2
                /\ stroke.samples_per_segment = 1)
               => /\ Len(outline) = 4
                  /\ {outline[m].start : m \in 1..4}
                        = {<<0, 1>>, <<10, 1>>, <<10, -1>>, <<0, -1>>}

\* C20 witness: stroke_to_path has returned the rectangle for the segment
\* (0,0)->(10,0) with width 2 and one sample per segment.
StrokeOpenOutlineWitness ==
    /\ OpenStroke
    /\ stroke.svg_path = << Seg(<<0, 0>>, <<10, 0>>) >>
    /\ stroke.width = 2
    /\ stroke.samples_per_segment = 1
    /\ stroke.close_tolerance = 0
    /\ Len(stroke.out[1]) = 4
    /\ stroke.out[1][4].end = stroke.out[1][1].start

\* C21: stroke_to_path on a closed Path (distance(start, end) <=
\* close_tolerance, the boundary included) returns one Path made of two
\* closed loops: the outer over the left samples in order, then the inner
\* over the right samples in reverse order; the last segment of each loop
\* ends at the first vertex of that loop.
ClosedStroke ==
    /\ stroke.pc = "done"
    /\ stroke.svg_path # <<>>
    /\ DistSq(stroke.svg_path[1].start,
              stroke.svg_path[Len(stroke.svg_path)].end)
          <= stroke.close_tolerance * stroke.close_tolerance

StrokeClosedOutline ==
    ClosedStroke =>
        LET outline == stroke.out[1]
            left == stroke.left_pts
            right == stroke.right_pts
            count == Len(stroke.svg_path) * (stroke.samples_per_segment + 1)
            outer == SubSeq(outline, 1, count)
            inner == SubSeq(outline, count + 1, 2 * count)
        IN  /\ Len(left) = count
            /\ Len(right) = count
            /\ Len(outline) = 2 * count
            /\ \A m \in 1..count :
                  /\ outer[m] = Seg(left[m], left[(m % count) + 1])
                  /\ inner[m] = Seg(right[count + 1 - m],
                                    right[count + 1 - ((m % count) + 1)])
            /\ outer[count].end = outer[1].start
            /\ inner[count].end = inner[1].start
            /\ inner[1].start = right[count]

\* C21 witness: stroke_to_path has returned the two loops for a Path whose
\* start and end are exactly close_tolerance apart.
StrokeClosedOutlineWitness ==
    /\ ClosedStroke
    /\ stroke.svg_path = << Seg(<<0, 0>>, <<10, 0>>) >>
    /\ stroke.close_tolerance = 10
    /\ stroke.width = 2
    /\ stroke.samples_per_segment = 2
    /\ Len(stroke.out[1]) = 6

\* C22: for a Path without any segment (fewer than two on-curve points)
\* and a width > 0, stroke_to_path samples nothing, does not fail, and
\* returns the input Path itself, unchanged.
StrokePassThrough ==
    (stroke.pc # "idle" /\ stroke.svg_path = <<>> /\ stroke.width > 0) =>
        /\ stroke.left_pts = <<>>
        /\ stroke.right_pts = <<>>
        /\ stroke.pc \in {"sample", "done"}
        /\ stroke.pc = "done" =>
              /\ stroke.returned_input
              /\ stroke.out = << stroke.svg_path >>

\* C22 witness: stroke_to_path has returned for the empty Path and width 2.
StrokePassThroughWitness ==
    /\ stroke.pc = "done"
    /\ stroke.svg_path = <<>>
    /\ stroke.width = 2
    /\ stroke.samples_per_segment = 1
    /\ stroke.returned_input

\* C23 (as claimed): every on-curve point of the Path returned by
\* apply_transform_to_path is the image, under the whole matrix
\* (a*x + c*y + e, b*x + d*y + f), of the point at the same place in the
\* input, with the same number of segments.
TransformAsClaimed ==
    xform.pc = "done" =>
        /\ Len(xform.out) = Len(xform.svg_path)
        /\ \A k \in 1..Len(xform.svg_path) :
              /\ xform.out[k].start =
                    apply_transform_to_point(xform.matrix,
                                             xform.svg_path[k].start)
              /\ xform.out[k].end =
                    apply_transform_to_point(xform.matrix,
                                             xform.svg_path[k].end)

\* A matrix that is a rotation with a uniform scale and a translation.
Conforming(matrix) == matrix[3] = 0 - matrix[2] /\ matrix[4] = matrix[1]

\* C24 (as claimed): a matrix that is not a rotation with uniform scale and
\* translation, applied to a Path that holds an Arc, ends in an
\* "unsupported" outcome and never in a returned Path.
UnsupportedReported ==
    (/\ xform.pc = "done"
     /\ ~Conforming(xform.matrix)
     /\ \E k \in 1..Len(xform.svg_path) : is_arc(xform.svg_path[k])) =>
        xform.outcome = "unsupported"

\* A match rule fires for the chains at positions a and b of the working
\* list: both have endpoints and one of the four endpoint pairs is within
\* tolerance.
Fires(a, b) ==
    /\ HasEnds(PathOf(chains[a]))
    /\ HasEnds(PathOf(chains[b]))
    /\ Touch(PathOf(chains[a]), PathOf(chains[b]))

\* C25: every fusion is applied to the lexicographically smallest pair
\* (i, j), i < j, of the working list for which a match rule fires; the
\* fused chain replaces position i, position j is removed and the chains
\* after it shift down by one in their order, joins grows by one, and the
\* pair examined next is (i, i + 1) (when the list still has a chain after
\* position i).
FirstPairWinsStep ==
    (pc = "scan" /\ Len(chains') < Len(chains)) =>
        /\ Fires(i + 1, j + 1)
        /\ \A a, b \in 1..Len(chains) :
              (a < b /\ (a < i + 1 \/ (a = i + 1 /\ b < j + 1)))
                  => ~Fires(a, b)
        /\ Len(chains') = Len(chains) - 1
        /\ \A n \in 1..Len(chains') :
              n # i + 1 =>
                  chains'[n] = IF n < j + 1 THEN chains[n] ELSE chains[n + 1]
        /\ Geometry(PathOf(chains'[i + 1])) =
              ExpectedFusion(PathOf(chains[i + 1]), PathOf(chains[j + 1]))[1]
        /\ joins' = joins + 1
        /\ i + 1 < Len(chains') => (pc' = "scan" /\ i' = i /\ j' = i + 1)

FirstPairWins == [][FirstPairWinsStep]_vars

\* C25 witness: the first fusion of a call joined the first and the third
\* input, which are not neighbours, and the scan is back at the pair (0, 1).
FirstPairWinsWitness ==
    /\ pc = "scan"
    /\ run = 1
    /\ joins = 1
    /\ i = 0
    /\ j = 1
    /\ members[1] = {1, 3}

\* C26: every fusion happens in the first execution of the body of the
\* outer "while changed" loop, a later pass fuses nothing, and a call that
\* returns has run the body once when joins = 0 and twice otherwise.
OnePassStep == (pc = "scan" /\ Len(chains') < Len(chains)) => passes = 1

OnePassCount ==
    pc \in {"close", "done"} => passes = IF joins = 0 THEN 1 ELSE 2

OnePassSuffices == []OnePassCount /\ [][OnePassStep]_vars

\* C26 witness: the second pass is examining a pair after a fusion of the
\* first pass.
OnePassSufficesWitness ==
    /\ pc = "scan"
    /\ run = 1
    /\ passes = 2
    /\ joins = 1

\* C27: every call of merge ends; while it scans and closes, the working
\* list holds paths_before - joins chains; on return paths_after =
\* paths_before - joins, joins <= max(paths_before - 1, 0), and paths_after
\* >= 1 whenever paths_before >= 1.
PathCount ==
    /\ pc \in {"scan", "close"} =>
          Len(chains) = (IF impl = "inkex" THEN Len(path_nodes)
                         ELSE Len(path_list)) - joins
    /\ Returned =>
          /\ stats.paths_before = Len(input)
          /\ stats.paths_after = Len(output)
          /\ stats.joins = joins
          /\ stats.paths_after = stats.paths_before - stats.joins
          /\ stats.joins <= (IF stats.paths_before >= 1
                             THEN stats.paths_before - 1 ELSE 0)
          /\ stats.paths_before >= 1 => stats.paths_after >= 1

TerminationAndPathCount == []PathCount /\ <>(pc \in {"done", "error"})

\* C27 witness: a call on three paths has returned two after one fusion.
TerminationAndPathCountWitness ==
    /\ Returned
    /\ stats.paths_before = 3
    /\ stats.joins = 1
    /\ stats.paths_after = 2

\* C28: in join_path_elements every chain of the working list, and so every
\* returned chain, carries the node of the member of its group with the
\* smallest input index, and the chains are ordered by that index.
LowestIndexSurvives ==
    (impl = "inkex" /\ run = 1 /\ pc \in {"scan", "close", "done"}) =>
        /\ \A n \in 1..Len(chains) :
              /\ chains[n].node \in members[n]
              /\ \A m \in members[n] : chains[n].node <= m
        /\ \A a, b \in 1..Len(chains) :
              a < b => chains[a].node < chains[b].node

\* C28 witness: a returned list of two chains whose first one was fused by
\* a rule that puts the absorbed chain's geometry first.
LowestIndexSurvivesWitness ==
    /\ impl = "inkex"
    /\ run = 1
    /\ Returned
    /\ Len(chains) = 2
    /\ members[1] = {1, 3}
    /\ _start(chains[1].path) # _start(node_path(input[1]))

\* C29 (as claimed): when join_path_elements returns, every surviving node,
\* drawn with its new path under the transforms still in effect on it and
\* on its ancestors, has the document-space geometry of its chain (the
\* flattened path with the composed transform baked in).
DocGeometryPreserved ==
    (/\ impl = "inkex" /\ run = 1 /\ Returned
     /\ tolerance >= 0
     /\ Len(input) >= 2
     /\ \A k \in 1..Len(input) : Len(input[k].pts) >= 2) =>
        \A n \in 1..Len(chains) :
            PointsOf(_flatten_path(doc[chains[n].node]))
                = PointsOf(chains[n].path)

\* The inputs of C30: open paths with two or more on-curve points each,
\* under a tolerance >= 0.
OpenInputs ==
    /\ tolerance >= 0
    /\ \A k \in 1..Len(input) : ~input[k].z /\ Len(input[k].pts) >= 2

\* C30 (as claimed): on open paths with two or more points each and a
\* tolerance >= 0, join_path_elements and join_paths both return, with the
\* same joins, the same paths_after, the same closed count and the same
\* groups of input paths in the same output order.
ImplementationsAgree ==
    (run = 4 /\ OpenInputs) =>
        /\ pc # "error"
        /\ Returned =>
              /\ stats.joins = first.stats.joins
              /\ stats.paths_after = first.stats.paths_after
              /\ stats.closed = first.stats.closed
              /\ members = first.groups

====
